---------------------------- MODULE Spec2Model ----------------------------
(***************************************************************************)
(* The broker manager of the kafka client (broker_manager.go): the cache   *)
(* of brokers and partition leaders behind one reader/writer lock, the     *)
(* default-broker slot, the metadata refresh and the two dispatch paths    *)
(* sendToPartition and sendToAny, run by concurrent caller threads.        *)
(*                                                                         *)
(* Every step of a thread is one access to shared memory (a lock           *)
(* operation, a read or write of the slot, a critical section's work)      *)
(* together with the thread-local code that follows it.  A broker's        *)
(* sendAndReceive is two steps: the thread enters it, and later it returns *)
(* with an outcome chosen by the environment.                              *)
(***************************************************************************)
EXTENDS Integers, Sequences, FiniteSets

\* ------------------------------------------------------------------ bounds

\* Caller threads.
Threads == {1, 2}

\* The number of calls that concurrent callers make in one run, and the
\* number that a single caller makes.
MaxCalls == 2
MaxSeqCalls == 3

\* The topics that callers and metadata responses name.
Topics == {"t", "u"}

\* The runs explored: two concurrent callers of a cluster of one broker with
\* one topic of one partition id; one caller of a cluster of two brokers
\* with one topic of two partition ids; and one caller of a cluster of two
\* brokers with two topics of one partition id. The bootstrap broker is one
\* more endpoint in each.
Setups ==
    {[callers |-> {1, 2}, cluster |-> {1}, topics |-> {"t"}, pids |-> {0}, calls |-> MaxCalls],
     [callers |-> {1}, cluster |-> {1, 2}, topics |-> {"t"}, pids |-> {0, 1}, calls |-> MaxSeqCalls],
     [callers |-> {1}, cluster |-> {1, 2}, topics |-> Topics, pids |-> {0}, calls |-> MaxSeqCalls]}

\* --------------------------------------------------------------- constants

\* A nil *broker.
NilBroker == 0

\* The id of the bootstrap broker made by newBroker(host, port): not the id
\* of any broker of the cluster, so it is never a key of the brokers map.
BootstrapId == -1

NoError == "nil"
EncodingError == "EncodingError"
\* Any error of sendAndReceive that is neither nil nor an EncodingError.
BrokerError == "BrokerError"
OutOfBrokers == "OutOfBrokers"
\* The error of a newBroker(host, port) that cannot make the broker.
DialError == "DialError"
UNKNOWN_TOPIC_OR_PARTITION == "UNKNOWN_TOPIC_OR_PARTITION"
NO_ERROR == "NO_ERROR"
\* An error code of a topic or a partition in a metadata response.
LEADER_NOT_AVAILABLE == "LEADER_NOT_AVAILABLE"

\* ------------------------------------------------------ metadata responses

\* partitionMetadata of a response that lists the brokers bs: a partition
\* without error is led by a listed broker.
PartitionDescs(pids, bs) ==
    {[id |-> p, leader |-> l, err |-> NO_ERROR] : p \in pids, l \in bs}
    \cup {[id |-> p, leader |-> NilBroker, err |-> LEADER_NOT_AVAILABLE] : p \in pids}

\* The sequences over S of length at most n.
SeqsUpTo(S, n) == UNION {[1..k -> S] : k \in 0..n}

\* topic.partitions: each partition id at most once.
PartitionLists(pids, bs) ==
    {s \in SeqsUpTo(PartitionDescs(pids, bs), Cardinality(pids)) :
        \A i, j \in DOMAIN s : s[i].id = s[j].id => i = j}

TopicDescs(names, pids, bs) ==
    {[name |-> n, err |-> LEADER_NOT_AVAILABLE, partitions |-> <<>>] : n \in names}
    \cup {[name |-> n, err |-> NO_ERROR, partitions |-> ps] : n \in names, ps \in PartitionLists(pids, bs)}

\* response.topics: each topic at most once.
TopicLists(names, pids, bs) ==
    {s \in SeqsUpTo(TopicDescs(names, pids, bs), Cardinality(names)) :
        \A i, j \in DOMAIN s : s[i].name = s[j].name => i = j}

\* The metadata responses that a cluster of the brokers cluster, with the
\* topics all of the partition ids pids, may give to a request for the
\* topics req (an empty list asks for every topic).
Responses(cluster, all, pids, req) ==
    LET names == IF req = {} THEN all ELSE req
    IN  UNION {{[brokers |-> bs, topics |-> ts] :
                    ts \in TopicLists(names, pids, bs)} :
               bs \in SUBSET cluster}

\* new(metadata): the response before anything is decoded into it.
EmptyResponse == [brokers |-> {}, topics |-> <<>>]

\* ------------------------------------------------------------ cache update

\* A map with key k set to v.
MapPut(m, k, v) == [x \in DOMAIN m \cup {k} |-> IF x = k THEN v ELSE m[x]]

\* The inner loop of refreshTopics over topic.partitions from index j on:
\* m is the topic's new inner map. Stops at the first partition error.
RECURSIVE ApplyPartitions(_, _, _)
ApplyPartitions(m, ps, j) ==
    IF j > Len(ps) THEN [map |-> m, err |-> NO_ERROR]
    ELSE IF ps[j].err # NO_ERROR THEN [map |-> m, err |-> ps[j].err]
    ELSE ApplyPartitions(MapPut(m, ps[j].id, ps[j].leader), ps, j + 1)

\* The outer loop adding the partitions of the response to the topic's entry
\* instead of making a new inner map.
RECURSIVE ApplyTopicsMerging(_, _, _)
ApplyTopicsMerging(parts, ts, i) ==
    IF i > Len(ts) THEN [partitions |-> parts, err |-> NoError]
    ELSE IF ts[i].err # NO_ERROR THEN [partitions |-> parts, err |-> ts[i].err]
    ELSE LET old == IF ts[i].name \in DOMAIN parts THEN parts[ts[i].name] ELSE <<>>
             r == ApplyPartitions(old, ts[i].partitions, 1)
             next == MapPut(parts, ts[i].name, r.map)
         IN  IF r.err # NO_ERROR THEN [partitions |-> next, err |-> r.err]
             ELSE ApplyTopicsMerging(next, ts, i + 1)

\* The outer loop of refreshTopics over response.topics from index i on.
\* Stops at the first topic or partition error, keeping what is applied.
RECURSIVE ApplyTopics(_, _, _)
ApplyTopics(parts, ts, i) ==
    IF i > Len(ts) THEN [partitions |-> parts, err |-> NoError]
    ELSE IF ts[i].err # NO_ERROR THEN [partitions |-> parts, err |-> ts[i].err]
    ELSE LET r == ApplyPartitions(<<>>, ts[i].partitions, 1)
             next == MapPut(parts, ts[i].name, r.map)
         IN  IF r.err # NO_ERROR THEN [partitions |-> next, err |-> r.err]
             ELSE ApplyTopics(next, ts, i + 1)

\* getLeader returning the leader that the record names, cached or not.
LeaderOfRecord(bs, parts, topic, partition_id) ==
    IF topic \in DOMAIN parts /\ partition_id \in DOMAIN parts[topic]
    THEN parts[topic][partition_id]
    ELSE NilBroker

\* getLeader's lookup in the two maps.
Leader(bs, parts, topic, partition_id) ==
    IF topic \in DOMAIN parts
       /\ partition_id \in DOMAIN parts[topic]
       /\ parts[topic][partition_id] \in bs
    THEN parts[topic][partition_id]
    ELSE NilBroker

\* ------------------------------------------------------------------- state

VARIABLES
    brokers,        \* bm.brokers: the set of its keys (broker ids)
    partitions,     \* bm.partitions: topic -> (partition id -> leader id)
    defaultBroker,  \* bm.defaultBroker: an endpoint, or NilBroker
    writer,         \* bm.lock: the thread holding it in write mode (at most one)
    readers,        \* bm.lock: the threads holding it in read mode
    th,             \* each thread's call: position, locals and its record
    calls,          \* calls made so far
    setup           \* the run's callers and cluster, one of Setups

vars == <<brokers, partitions, defaultBroker, writer, readers, th, calls, setup>>

NoResult == [got |-> FALSE, err |-> NoError, leader |-> NilBroker, ids |-> {}]

\* What a call has done so far, in order: its sends to a partition leader,
\* the refreshes it asked for and the brokers it terminated.
Event(k, id, err, got, topics) ==
    [k |-> k, id |-> id, err |-> err, got |-> got, topics |-> topics]
SendEvent(id, got, err, stale) == Event("send", id, err, got, stale)
RefreshEvent(topics) == Event("refresh", NilBroker, NoError, FALSE, topics)
TerminateEvent(id) == Event("terminate", id, NoError, FALSE, {})

\* The call writes to the maps or the slot: getDefault's pick (line 158),
\* sendToAny's clearing of the slot (line 174), terminateBroker's delete
\* (line 40), refreshTopics' update of the maps (lines 193-207).
Wrote(l, w) ==
    [l EXCEPT !.wrote = @ \/ (l.op = "sendToPartition" /\
                               w \in {"pick", "clear", "terminate", "refresh"})]

\* A thread that has not called anything yet.
Idle ==
    [op |-> "none", pc |-> "idle", stack |-> <<>>,
     topic |-> "", part |-> 0, req |-> {}, b |-> NilBroker,
     err |-> NoError,      \* err of the last sendAndReceive of sendToPartition
                           \* (lines 113, 149) or of a user's sendToAny (line 168)
     resp |-> EmptyResponse, ret |-> NoResult,
     hist |-> <<>>,        \* the call's events
     wrote |-> FALSE,      \* sendToPartition wrote to the maps or the slot
     visited |-> {},       \* endpoints a user's sendToAny has sent to
     dup |-> FALSE,        \* ... and whether it sent to one of them again
     allFail |-> FALSE,    \* ... and whether every send failed while it ran
     cold |-> FALSE,       \* sendToPartition began with no cache entry of its topic
     quiet |-> FALSE]      \* getValidLeader began with brokers and slot empty
                           \* and no other call in progress

\* ------------------------------------------------- calls and their returns
\* The stack holds the return sites of the calls in progress, innermost
\* first, each named by the line of the call in broker_manager.go.

\* The call returns to the user.
RetOp(l, r) ==
    [l EXCEPT !.pc = "idle", !.stack = <<>>, !.ret = r, !.b = NilBroker,
              !.resp = EmptyResponse, !.req = {}]

\* sendToPartition: b.sendAndReceive is entered (line 113 or 149).
EnterSend(l, leader, site) ==
    [l EXCEPT !.b = leader, !.stack = Tail(l.stack),
              !.pc = IF site = "L108" THEN "sp113" ELSE "sp149"]

\* getValidLeader returns (leader, err) to line 108, line 144 or the user.
RetVL(l, leader, err) ==
    IF l.stack = <<>>
    THEN RetOp(l, [NoResult EXCEPT !.leader = leader, !.err = err])
    ELSE IF err # NoError
    THEN RetOp(l, [NoResult EXCEPT !.err = err])
    ELSE EnterSend(l, leader, Head(l.stack))

\* getValidLeader is called from site: it calls getLeader (line 63), whose
\* first step takes the read lock.
BeginVL(l, site) ==
    [l EXCEPT !.pc = "gl47", !.stack = <<"L63">> \o site \o l.stack]

\* sendToAny is called from site: its first step is getDefault's check.
BeginSA(l, site) ==
    [l EXCEPT !.pc = "gd154", !.stack = site \o l.stack, !.b = NilBroker,
              !.allFail = site = <<>>]

\* refreshTopics(topics) is called from site: it calls sendToAny (line 183).
BeginRT(l, site, topics) ==
    BeginSA([l EXCEPT !.req = topics, !.resp = EmptyResponse,
                      !.hist = Append(l.hist, RefreshEvent(topics)),
                      !.stack = site \o l.stack],
            <<"L183">>)

\* The callers of terminateBroker going on without calling it.
BeginTBSkipped(l, site) ==
    LET m == [l EXCEPT !.b = NilBroker]
    IN  CASE site = <<>> -> RetOp(m, NoResult)
          [] site = <<"L137">> -> BeginVL(m, <<"L144">>)
          [] site = <<"L175">> -> [m EXCEPT !.pc = "gd154"]

\* terminateBroker(l.b) is called from site: its first step takes the lock.
BeginTB(l, site) ==
    [l EXCEPT !.pc = "tb39", !.stack = site \o l.stack]

\* newBrokerManager returning the manager whatever the first refresh returned.
ConstructedAnyway(l, err) == Idle

\* lines 30-35: newBrokerManager returns (nil, err) when the first refresh
\* failed, and the manager otherwise: its callers may then call it.
Constructed(l, err) ==
    IF err # NoError THEN RetOp(l, [NoResult EXCEPT !.err = err]) ELSE Idle

\* getValidLeader going on to its second lookup whatever refreshTopic returned.
RetRTIgnoresError(l, err) ==
    LET site == IF l.stack = <<>> THEN "user" ELSE Head(l.stack)
        m == [l EXCEPT !.stack = IF l.stack = <<>> THEN <<>> ELSE Tail(l.stack),
                       !.req = {}, !.resp = EmptyResponse]
    IN  CASE site = "user" -> RetOp(m, [NoResult EXCEPT !.err = err])
          [] site = "L30" -> Constructed(m, err)
          [] site = "L66" -> [m EXCEPT !.pc = "gl47", !.stack = <<"L71">> \o m.stack]
          [] site = "L86" ->
                IF err # NoError THEN RetOp(m, [NoResult EXCEPT !.err = err])
                ELSE [m EXCEPT !.pc = "pt90"]
          [] site = "L127" ->
                IF err # NoError THEN RetOp(m, [NoResult EXCEPT !.got = TRUE, !.err = err])
                ELSE BeginVL(m, <<"L144">>)

\* sendToPartition sending again after the refresh of the stale topics
\* without looking the leader up again.
RetRTKeepsLeader(l, err) ==
    LET site == IF l.stack = <<>> THEN "user" ELSE Head(l.stack)
        m == [l EXCEPT !.stack = IF l.stack = <<>> THEN <<>> ELSE Tail(l.stack),
                       !.req = {}, !.resp = EmptyResponse]
    IN  CASE site = "user" -> RetOp(m, [NoResult EXCEPT !.err = err])
          [] site = "L30" -> Constructed(m, err)
          [] site = "L66" ->
                IF err # NoError THEN RetVL(m, NilBroker, err)
                ELSE [m EXCEPT !.pc = "gl47", !.stack = <<"L71">> \o m.stack]
          [] site = "L86" ->
                IF err # NoError THEN RetOp(m, [NoResult EXCEPT !.err = err])
                ELSE [m EXCEPT !.pc = "pt90"]
          [] site = "L127" ->
                IF err # NoError THEN RetOp(m, [NoResult EXCEPT !.got = TRUE, !.err = err])
                ELSE [m EXCEPT !.pc = "sp149", !.b = l.hist[1].id]

\* sendToPartition returning (false, err) when the refresh of the stale
\* topics fails.
RetRTDropsResponse(l, err) ==
    LET site == IF l.stack = <<>> THEN "user" ELSE Head(l.stack)
        m == [l EXCEPT !.stack = IF l.stack = <<>> THEN <<>> ELSE Tail(l.stack),
                       !.req = {}, !.resp = EmptyResponse]
    IN  CASE site = "user" -> RetOp(m, [NoResult EXCEPT !.err = err])
          [] site = "L30" -> Constructed(m, err)
          [] site = "L66" ->
                IF err # NoError THEN RetVL(m, NilBroker, err)
                ELSE [m EXCEPT !.pc = "gl47", !.stack = <<"L71">> \o m.stack]
          [] site = "L86" ->
                IF err # NoError THEN RetOp(m, [NoResult EXCEPT !.err = err])
                ELSE [m EXCEPT !.pc = "pt90"]
          [] site = "L127" ->
                IF err # NoError THEN RetOp(m, [NoResult EXCEPT !.err = err])
                ELSE BeginVL(m, <<"L144">>)

\* refreshTopics returns err to line 30, 66, 86 or 127, or to the user.
RetRT(l, err) ==
    LET site == IF l.stack = <<>> THEN "user" ELSE Head(l.stack)
        m == [l EXCEPT !.stack = IF l.stack = <<>> THEN <<>> ELSE Tail(l.stack),
                       !.req = {}, !.resp = EmptyResponse]
    IN  CASE site = "user" -> RetOp(m, [NoResult EXCEPT !.err = err])
          [] site = "L30" -> Constructed(m, err)
          [] site = "L66" ->
                IF err # NoError THEN RetVL(m, NilBroker, err)
                ELSE [m EXCEPT !.pc = "gl47", !.stack = <<"L71">> \o m.stack]
          [] site = "L86" ->
                IF err # NoError THEN RetOp(m, [NoResult EXCEPT !.err = err])
                ELSE [m EXCEPT !.pc = "pt90"]
          [] site = "L127" ->
                IF err # NoError THEN RetOp(m, [NoResult EXCEPT !.got = TRUE, !.err = err])
                ELSE BeginVL(m, <<"L144">>)

\* sendToAny returns (got, err) to line 183 or to the user.
RetSA(l, got, err) ==
    IF l.stack = <<>>
    THEN RetOp(l, [NoResult EXCEPT !.got = got, !.err = err])
    ELSE LET m == [l EXCEPT !.stack = Tail(l.stack), !.b = NilBroker]
         IN  IF err # NoError THEN RetRT(m, err)
             ELSE [m EXCEPT !.pc = "rt188"]

\* getValidLeader refreshing again when the second lookup finds no leader.
RetGLRefreshesAgain(l, leader) ==
    LET m == [l EXCEPT !.stack = Tail(l.stack)]
    IN  IF leader # NilBroker THEN RetVL(m, leader, NoError)
        ELSE BeginRT(m, <<"L66">>, {l.topic})

\* getLeader returns leader to line 63 or line 71 of getValidLeader.
RetGL(l, leader) ==
    LET m == [l EXCEPT !.stack = Tail(l.stack)]
    IN  IF leader # NilBroker THEN RetVL(m, leader, NoError)
        ELSE IF Head(l.stack) = "L63" THEN BeginRT(m, <<"L66">>, {l.topic})
        ELSE RetVL(m, NilBroker, UNKNOWN_TOPIC_OR_PARTITION)

\* terminateBroker returns to line 137 of sendToPartition, to line 175 of
\* sendToAny, or to the user.
RetTB(l) ==
    LET site == IF l.stack = <<>> THEN "user" ELSE Head(l.stack)
        m == [l EXCEPT !.stack = IF l.stack = <<>> THEN <<>> ELSE Tail(l.stack)]
    IN  CASE site = "user" -> RetOp(m, NoResult)
          [] site = "L137" -> BeginVL([m EXCEPT !.b = NilBroker], <<"L144">>)
          [] site = "L175" -> [m EXCEPT !.pc = "gd154", !.b = NilBroker]

\* -------------------------------------------------------------------- lock

\* A read lock that does not wait for the writer.
RLockIgnoresWriter == TRUE

\* sync.RWMutex: RLock waits while a writer holds the lock, Lock waits while
\* anyone holds it.
CanRLock == writer = {}
CanLock == writer = {} /\ readers = {}

\* ------------------------------------------------------------ construction

\* newBrokerManager: the bootstrap broker becomes the default broker, and the
\* first refresh of all topics, which must not fail, fills the empty maps.
Init ==
    /\ setup \in Setups
    /\ \E r \in Responses(setup.cluster, setup.topics, setup.pids, {}) :
          LET a == ApplyTopics(<<>>, r.topics, 1)
          IN  /\ a.err = NoError
              /\ brokers = r.brokers
              /\ partitions = a.partitions
    /\ defaultBroker = BootstrapId
    /\ writer = {}
    /\ readers = {}
    /\ th = [t \in Threads |-> Idle]
    /\ calls = 0

\* ------------------------------------------------------------------- calls

\* The record of a call of op that thread t begins now.
Fresh(t, op, topic, part) ==
    [Idle EXCEPT !.op = op, !.topic = topic, !.part = part,
                 !.cold = op = "sendToPartition" /\ topic \notin DOMAIN partitions,
                 !.quiet = /\ op = "getValidLeader"
                           /\ brokers = {}
                           /\ defaultBroker = NilBroker
                           /\ \A u \in Threads \ {t} : th[u].pc = "idle"]

\* The manager that callers call is the one newBrokerManager returned: no
\* construction is in progress or has failed.
Built == \A u \in Threads : th[u].op # "newBrokerManager"

MayCall(t) == Built /\ t \in setup.callers /\ th[t].pc = "idle" /\ calls < setup.calls

Shared == <<brokers, partitions, defaultBroker, writer, readers>>

CallSendToPartition(t) ==
    /\ MayCall(t)
    /\ \E topic \in setup.topics, part \in setup.pids :
          th' = [th EXCEPT ![t] = BeginVL(Fresh(t, "sendToPartition", topic, part), <<"L108">>)]
    /\ calls' = calls + 1
    /\ UNCHANGED <<Shared, setup>>

CallGetValidLeader(t) ==
    /\ MayCall(t)
    /\ \E topic \in setup.topics, part \in setup.pids :
          th' = [th EXCEPT ![t] = BeginVL(Fresh(t, "getValidLeader", topic, part), <<>>)]
    /\ calls' = calls + 1
    /\ UNCHANGED <<Shared, setup>>

CallPartitionsForTopic(t) ==
    /\ MayCall(t)
    /\ \E topic \in setup.topics :
          th' = [th EXCEPT ![t] = [Fresh(t, "partitionsForTopic", topic, 0) EXCEPT !.pc = "pt82"]]
    /\ calls' = calls + 1
    /\ UNCHANGED <<Shared, setup>>

CallSendToAny(t) ==
    /\ MayCall(t)
    /\ th' = [th EXCEPT ![t] = BeginSA(Fresh(t, "sendToAny", "", 0), <<>>)]
    /\ calls' = calls + 1
    /\ UNCHANGED <<Shared, setup>>

CallRefreshTopics(t) ==
    /\ MayCall(t)
    /\ \E topics \in SUBSET setup.topics :
          th' = [th EXCEPT ![t] = BeginRT(Fresh(t, "refreshTopics", "", 0), <<>>, topics)]
    /\ calls' = calls + 1
    /\ UNCHANGED <<Shared, setup>>

CallTerminateBroker(t) ==
    /\ MayCall(t)
    /\ \E id \in setup.cluster :
          th' = [th EXCEPT ![t] = BeginTB([Fresh(t, "terminateBroker", "", 0) EXCEPT !.b = id], <<>>)]
    /\ calls' = calls + 1
    /\ UNCHANGED <<Shared, setup>>

\* ------------------------------------------------------------------- steps
\* A critical section that only works on the maps is one step: the lock is
\* taken when it is free, the maps are read or written, the lock is released.
\* The two critical sections that are more than one step are getDefault's,
\* which writes and reads the slot under the read lock, and refreshTopics',
\* which writes the brokers and then the partitions under the write lock.

\* ------------------------------------------------------------- getLeader

\* getLeader without its deferred RUnlock.
GetLeaderKeepsLock(t) == readers \cup {t}

\* line 48: the deferred RUnlock of getLeader.
GetLeaderUnlock(t) == readers \ {t}

\* lines 47-58: under the read lock, the lookup in the two maps; then the
\* caller, getValidLeader, goes on with the leader found.
GetLeader(t) ==
    /\ th[t].pc = "gl47"
    /\ CanRLock
    /\ readers' = GetLeaderUnlock(t)
    /\ th' = [th EXCEPT ![t] = RetGL(th[t], Leader(brokers, partitions, th[t].topic, th[t].part))]
    /\ UNCHANGED <<brokers, partitions, defaultBroker, writer, calls, setup>>

\* ------------------------------------------------------ partitionsForTopic

\* partitionsForTopic refreshing again when the topic is absent at the re-check.
PartitionsFoundRefreshesAgain(l, first) ==
    IF l.topic \in DOMAIN partitions
    THEN RetOp(l, [NoResult EXCEPT !.ids = DOMAIN partitions[l.topic]])
    ELSE BeginRT(l, <<"L86">>, {l.topic})

\* What partitionsForTopic does with id_map read at line 83 (first = TRUE)
\* or line 91: a nil map is a miss, which refreshes the first time and fails
\* the second time; otherwise the ids of the map are returned.
PartitionsFound(l, first) ==
    IF l.topic \in DOMAIN partitions
    THEN RetOp(l, [NoResult EXCEPT !.ids = DOMAIN partitions[l.topic]])
    ELSE IF first THEN BeginRT(l, <<"L86">>, {l.topic})
    ELSE RetOp(l, [NoResult EXCEPT !.err = UNKNOWN_TOPIC_OR_PARTITION])

\* lines 85, 93 and 103: the RUnlock on each way out.
PartitionsUnlock(t) == readers \ {t}

\* lines 82-104, from either RLock (line 82, line 90) to the RUnlock that
\* follows the read of bm.partitions[topic].
PartitionsRead(t) ==
    /\ th[t].pc \in {"pt82", "pt90"}
    /\ CanRLock
    /\ readers' = PartitionsUnlock(t)
    /\ th' = [th EXCEPT ![t] = PartitionsFound(th[t], th[t].pc = "pt82")]
    /\ UNCHANGED <<brokers, partitions, defaultBroker, writer, calls, setup>>

\* --------------------------------------------------- getDefault, sendToAny

\* line 154: the unlocked read of bm.defaultBroker.
GetDefaultCheck(t) ==
    /\ th[t].pc = "gd154"
    /\ th' = [th EXCEPT ![t].pc = IF defaultBroker = NilBroker THEN "gd155" ELSE "gd163"]
    /\ UNCHANGED <<Shared, calls, setup>>

\* lines 155-160: under the read lock, the first broker that the range over
\* bm.brokers yields, if any, becomes the default broker. The lock stays
\* held until getDefault returns.
GetDefaultPick(t) ==
    /\ th[t].pc = "gd155"
    /\ CanRLock
    /\ readers' = readers \cup {t}
    /\ \/ /\ brokers = {}
          /\ th' = [th EXCEPT ![t].pc = "gd163"]
          /\ UNCHANGED defaultBroker
       \/ \E id \in brokers :
             /\ defaultBroker' = id
             /\ th' = [th EXCEPT ![t] = [Wrote(th[t], "pick") EXCEPT !.pc = "gd163"]]
    /\ UNCHANGED <<brokers, partitions, writer, calls, setup>>

\* getDefault without its deferred RUnlock.
GetDefaultKeepsLock(t) == readers

\* line 156: the deferred RUnlock of getDefault, run as it returns.
GetDefaultUnlock(t) == readers \ {t}

\* line 167, with b the broker getDefault returned: without a broker
\* sendToAny fails (line 178), with one it enters b.sendAndReceive (line 168).
LoopSendToAny(l, b) ==
    IF b = NilBroker
    THEN RetSA(l, FALSE, OutOfBrokers)
    ELSE IF l.stack = <<>>
    THEN [l EXCEPT !.pc = "sa168", !.b = b,
                   !.visited = l.visited \cup {b},
                   !.dup = l.dup \/ b \in l.visited]
    ELSE [l EXCEPT !.pc = "sa168", !.b = b]

\* line 163: getDefault returns what bm.defaultBroker holds now and releases
\* the read lock if it took it; then line 167.
GetDefaultReturn(t) ==
    /\ th[t].pc = "gd163"
    /\ readers' = GetDefaultUnlock(t)
    /\ th' = [th EXCEPT ![t] = LoopSendToAny(th[t], defaultBroker)]
    /\ UNCHANGED <<brokers, partitions, defaultBroker, writer, calls, setup>>

\* What sendAndReceive may return to sendToAny without a broker error: an
\* EncodingError, or nil with or without a response (refreshTopics' metadata
\* request always has one; what it holds is read in RefreshBrokers).
AnyOutcomes(l) ==
    {[got |-> FALSE, err |-> EncodingError]}
    \cup {[got |-> g, err |-> NoError] : g \in IF l.stack = <<>> THEN BOOLEAN ELSE {TRUE}}

\* A send that did not fail has returned to thread t: no sendToAny in
\* progress has seen every send fail.
SawSuccess(t, l) ==
    [u \in Threads |-> IF u = t THEN l
                       ELSE IF th[u].pc = "idle" THEN th[u]
                       ELSE [th[u] EXCEPT !.allFail = FALSE]]

\* lines 168-171: sendAndReceive returns nil or an EncodingError, which
\* sendToAny returns as it is.
SendToAnyReturns(t) ==
    /\ th[t].pc = "sa168"
    /\ \E o \in AnyOutcomes(th[t]) :
          th' = SawSuccess(t, RetSA([th[t] EXCEPT !.allFail = FALSE,
                                                  !.err = IF th[t].stack = <<>> THEN o.err ELSE @],
                                    o.got, o.err))
    /\ UNCHANGED <<Shared, calls, setup>>

\* lines 172-175: sendAndReceive returns a broker error; the slot is cleared
\* (line 174) and terminateBroker(b.id) is called (line 175).
SendToAnyFails(t) ==
    /\ th[t].pc = "sa168"
    /\ defaultBroker' = NilBroker
    /\ th' = [th EXCEPT ![t] = BeginTB([Wrote(th[t], "clear") EXCEPT
                                          !.err = IF th[t].stack = <<>> \/ ~Built
                                                  THEN BrokerError ELSE @],
                                      <<"L175">>)]
    /\ UNCHANGED <<brokers, partitions, writer, readers, calls, setup>>

\* --------------------------------------------------------- terminateBroker

\* The call's record of a terminateBroker made by sendToPartition or the user.
Terminated(l) ==
    IF l.stack # <<>> /\ Head(l.stack) = "L175" THEN Wrote(l, "terminate")
    ELSE [Wrote(l, "terminate") EXCEPT !.hist = Append(l.hist, TerminateEvent(l.b))]

\* line 41: bm.lock.Unlock()
TerminateUnlock(t) == writer \ {t}

\* lines 39-41: under the write lock, delete(bm.brokers, id); then the
\* caller goes on.
TerminateBroker(t) ==
    /\ th[t].pc = "tb39"
    /\ CanLock
    /\ brokers' = brokers \ {th[t].b}
    /\ writer' = TerminateUnlock(t)
    /\ th' = [th EXCEPT ![t] = RetTB(Terminated(th[t]))]
    /\ UNCHANGED <<partitions, defaultBroker, readers, calls, setup>>

\* ----------------------------------------------------------- refreshTopics

\* The brokers of the response r are new endpoints (line 192), which no
\* sendToAny in progress has sent to yet.
NewEndpoints(t, l, r) ==
    [u \in Threads |-> IF u = t THEN l
                       ELSE IF th[u].pc = "idle" THEN th[u]
                       ELSE [th[u] EXCEPT !.visited = th[u].visited \ r.brokers]]

\* A refresh that leaves the brokers of its response out of bm.brokers.
PutBrokersNone(bs, r) == bs

\* A refresh that keeps only the brokers of its response that are new.
PutBrokersFresh(bs, r) == r.brokers \ bs

\* lines 191-194: every broker of the response r is put into the map.
PutBrokers(bs, r) == bs \cup r.brokers

\* lines 188-194: once sendToAny has returned the response, under the write
\* lock, every broker of the response is put into bm.brokers. The response
\* is one of those the cluster may give to the request; nothing has read it
\* before this step, and its topics are read in the next.
RefreshBrokers(t) ==
    /\ th[t].pc = "rt188"
    /\ CanLock
    /\ writer' = {t}
    /\ \E r \in Responses(setup.cluster, setup.topics, setup.pids, th[t].req) :
          /\ brokers' = PutBrokers(brokers, r)
          /\ th' = NewEndpoints(t, [Wrote(th[t], "refresh") EXCEPT
                                      !.pc = "rt196", !.resp = [r EXCEPT !.brokers = {}]], r)
    /\ UNCHANGED <<partitions, defaultBroker, readers, calls, setup>>

\* line 189: the deferred Unlock of refreshTopics, run as it returns.
RefreshUnlock(t) == writer \ {t}

\* lines 196-211: the topics of the response replace their entries of
\* bm.partitions up to the first error; refreshTopics unlocks and returns.
RefreshPartitions(t) ==
    /\ th[t].pc = "rt196"
    /\ LET a == ApplyTopics(partitions, th[t].resp.topics, 1)
       IN  /\ partitions' = a.partitions
           /\ th' = [th EXCEPT ![t] = RetRT(th[t], a.err)]
    /\ writer' = RefreshUnlock(t)
    /\ UNCHANGED <<brokers, defaultBroker, readers, calls, setup>>

\* --------------------------------------------------------- sendToPartition

\* What b.sendAndReceive may return to sendToPartition: an EncodingError, a
\* broker error, nil without a response, or nil with a response whose
\* staleTopics() is stale.
SendOutcomes ==
    {[got |-> FALSE, err |-> e, stale |-> {}] : e \in {EncodingError, BrokerError, NoError}}
    \cup {[got |-> TRUE, err |-> NoError, stale |-> s] : s \in SUBSET setup.topics}

Sent(l, o) ==
    [l EXCEPT !.err = o.err, !.hist = Append(l.hist, SendEvent(l.b, o.got, o.err, o.stale))]

\* The first attempt returning any response without asking for its stale topics.
FirstAttemptIgnoresStale(l, o) ==
    CASE o.err = EncodingError -> RetOp(l, [NoResult EXCEPT !.err = o.err])
      [] o.err = NoError /\ o.got -> RetOp(l, [NoResult EXCEPT !.got = TRUE])
      [] o.err = NoError /\ ~o.got -> RetOp(l, NoResult)
      [] OTHER -> BeginTB(l, <<"L137">>)

\* The first attempt without its case for EncodingError: the broker is
\* terminated and the send retried, as for any other error.
FirstAttemptBlamesBroker(l, o) ==
    CASE o.err = NoError /\ o.got /\ o.stale = {} -> RetOp(l, [NoResult EXCEPT !.got = TRUE])
      [] o.err = NoError /\ o.got /\ o.stale # {} -> BeginRT(l, <<"L127">>, o.stale)
      [] o.err = NoError /\ ~o.got -> RetOp(l, NoResult)
      [] OTHER -> BeginTB(l, <<"L137">>)

\* The first attempt re-resolving the leader after a broker error without
\* terminating the broker.
FirstAttemptKeepsBroker(l, o) ==
    CASE o.err = EncodingError -> RetOp(l, [NoResult EXCEPT !.err = o.err])
      [] o.err = NoError /\ o.got /\ o.stale = {} -> RetOp(l, [NoResult EXCEPT !.got = TRUE])
      [] o.err = NoError /\ o.got /\ o.stale # {} -> BeginRT(l, <<"L127">>, o.stale)
      [] o.err = NoError /\ ~o.got -> RetOp(l, NoResult)
      [] OTHER -> BeginVL([l EXCEPT !.b = NilBroker], <<"L144">>)

\* lines 114-138: the switch on the error of the first send.
FirstAttempt(l, o) ==
    CASE o.err = EncodingError -> RetOp(l, [NoResult EXCEPT !.err = o.err])
      [] o.err = NoError /\ o.got /\ o.stale = {} -> RetOp(l, [NoResult EXCEPT !.got = TRUE])
      [] o.err = NoError /\ o.got /\ o.stale # {} -> BeginRT(l, <<"L127">>, o.stale)
      [] o.err = NoError /\ ~o.got -> RetOp(l, NoResult)
      [] OTHER -> BeginTB(l, <<"L137">>)

\* The second attempt handled like the first: stale topics and broker errors
\* lead to one more attempt.
SecondAttemptRetries(l, o) ==
    CASE o.err = EncodingError -> RetOp(l, [NoResult EXCEPT !.err = o.err])
      [] o.err = NoError /\ o.got /\ o.stale = {} -> RetOp(l, [NoResult EXCEPT !.got = TRUE])
      [] o.err = NoError /\ o.got /\ o.stale # {} -> BeginRT(l, <<"L127">>, o.stale)
      [] o.err = NoError /\ ~o.got -> RetOp(l, NoResult)
      [] OTHER -> BeginTB(l, <<"L137">>)

\* line 149: the result of the second send is returned as it is.
SecondAttempt(l, o) == RetOp(l, [NoResult EXCEPT !.got = o.got, !.err = o.err])

\* line 113: the first sendAndReceive returns.
FirstSendReturns(t) ==
    /\ th[t].pc = "sp113"
    /\ \E o \in SendOutcomes :
          LET l == FirstAttempt(Sent(th[t], o), o)
          IN  th' = IF o.err = BrokerError THEN [th EXCEPT ![t] = l] ELSE SawSuccess(t, l)
    /\ UNCHANGED <<Shared, calls, setup>>

\* line 149: the second sendAndReceive returns.
SecondSendReturns(t) ==
    /\ th[t].pc = "sp149"
    /\ \E o \in SendOutcomes :
          LET l == SecondAttempt(Sent(th[t], o), o)
          IN  th' = IF o.err = BrokerError THEN [th EXCEPT ![t] = l] ELSE SawSuccess(t, l)
    /\ UNCHANGED <<Shared, calls, setup>>

\* --------------------------------------------------------------- the system

Call(t) ==
    \/ CallSendToPartition(t)
    \/ CallGetValidLeader(t)
    \/ CallPartitionsForTopic(t)
    \/ CallSendToAny(t)
    \/ CallRefreshTopics(t)
    \/ CallTerminateBroker(t)

Step(t) ==
    \/ GetLeader(t)
    \/ PartitionsRead(t)
    \/ GetDefaultCheck(t)
    \/ GetDefaultPick(t)
    \/ GetDefaultReturn(t)
    \/ SendToAnyReturns(t)
    \/ SendToAnyFails(t)
    \/ TerminateBroker(t)
    \/ RefreshBrokers(t)
    \/ RefreshPartitions(t)
    \/ FirstSendReturns(t)
    \/ SecondSendReturns(t)

Next == \E t \in Threads : Call(t) \/ Step(t)

Spec == Init /\ [][Next]_vars

\* The manager before newBrokerManager: nothing is cached, and one thread is
\* about to construct it.
ConstructInit ==
    /\ setup \in Setups
    /\ brokers = {}
    /\ partitions = <<>>
    /\ defaultBroker = NilBroker
    /\ writer = {}
    /\ readers = {}
    /\ th = [t \in Threads |-> IF t = 1 THEN [Idle EXCEPT !.op = "newBrokerManager", !.pc = "nb21"]
                                ELSE Idle]
    /\ calls = 0

\* lines 21-30: newBroker(host, port) fails, and so does the construction, or
\* its broker becomes the default broker and the first refresh, of every
\* topic, begins.
NewBrokerManager(t) ==
    /\ th[t].pc = "nb21"
    /\ \/ /\ th' = [th EXCEPT ![t] = RetOp(th[t], [NoResult EXCEPT !.err = DialError])]
          /\ UNCHANGED defaultBroker
       \/ /\ defaultBroker' = BootstrapId
          /\ th' = [th EXCEPT ![t] = BeginRT(th[t], <<"L30">>, {})]
    /\ UNCHANGED <<brokers, partitions, writer, readers, calls, setup>>

ConstructNext == (\E t \in Threads : NewBrokerManager(t)) \/ Next

\* The manager from its construction on.
ConstructSpec == ConstructInit /\ [][ConstructNext]_vars

\* The callers' steps are scheduled fairly: a thread that can take a step
\* takes one. Nothing is assumed about when callers make calls.
Concurrent == setup.callers = Threads
\* Construction that leaves bm.partitions empty, with two callers.
ColdInit == Init /\ Concurrent /\ partitions = <<>>
FairSpec == ColdInit /\ [][Next]_vars /\ \A t \in Threads : WF_vars(Step(t))

\* ------------------------------------------------------------- properties

Returned(l) == l.op # "none" /\ l.pc = "idle"

\* The events of kind k in h, by their indexes.
EventsOf(h, k) == {i \in DOMAIN h : h[i].k = k}
Count(h, k) == Cardinality(EventsOf(h, k))

\* The first and the last send of h, which has one.
FirstSend(h) == CHOOSE i \in EventsOf(h, "send") : \A j \in EventsOf(h, "send") : i <= j
LastSend(h) == CHOOSE i \in EventsOf(h, "send") : \A j \in EventsOf(h, "send") : j <= i

\* The sends of the caller's request that sendToPartition has entered.
SendsEntered(l) == Count(l.hist, "send") + (IF l.pc \in {"sp113", "sp149"} THEN 1 ELSE 0)


\* C1: in every state of every run, concurrent or not, a sendToPartition call
\* has handed the caller's request to a leader's sendAndReceive at most twice.
C1_AtMostTwoSends ==
    \A t \in Threads : th[t].op = "sendToPartition" => SendsEntered(th[t]) <= 2

\* A call has sent twice while another call is in progress.
C1_Witness ==
    \E t, u \in Threads :
        /\ t # u
        /\ th[t].op = "sendToPartition" /\ Count(th[t].hist, "send") = 2
        /\ th[u].pc # "idle"

ReturnedTrueNil(l) ==
    l.op = "sendToPartition" /\ Returned(l) /\ l.ret.got /\ l.ret.err = NoError

\* C2 as claimed: whenever sendToPartition has returned (true, nil), from the
\* first or the second attempt, its last response had no stale topics.
C2_LastResponseNotStale ==
    \A t \in Threads :
        ReturnedTrueNil(th[t]) => th[t].hist[LastSend(th[t].hist)].topics = {}

\* C2 amended: whenever sendToPartition has returned (true, nil) from its
\* first attempt, the response of that send had no stale topics.
C2_FirstAttemptNotStale ==
    \A t \in Threads :
        ReturnedTrueNil(th[t]) /\ Count(th[t].hist, "send") = 1
            => th[t].hist[LastSend(th[t].hist)].topics = {}

\* sendToPartition has returned (true, nil) from its first attempt.
C2_Witness ==
    \E t \in Threads : ReturnedTrueNil(th[t]) /\ Count(th[t].hist, "send") = 1

\* C3 as claimed: a user's sendToAny during which every send failed with a
\* broker error has returned OutOfBrokers and has sent to no endpoint twice.
C3_EachBrokerOnce ==
    \A t \in Threads :
        th[t].op = "sendToAny" /\ Returned(th[t]) /\ th[t].allFail
            => th[t].ret.err = OutOfBrokers /\ ~th[t].dup

\* C4: a thread inside sendAndReceive, called by sendToPartition or by
\* sendToAny (for a user or a refresh), holds the lock in neither mode.
C4_NoLockAcrossSend ==
    \A t \in Threads :
        th[t].pc \in {"sp113", "sp149", "sa168"} => t \notin readers /\ t \notin writer

\* A refresh is inside sendAndReceive on a cached broker, which getDefault
\* picked under the read lock or found in the slot.
C4_Witness ==
    \E t \in Threads :
        th[t].pc = "sa168" /\ th[t].stack # <<>> /\ th[t].b \in setup.cluster

\* A refresh has put the brokers of its response into bm.brokers and not yet
\* its topics into bm.partitions.
MidRefresh(u) == th[u].pc = "rt196"

\* Thread t looks the maps up in this step: getLeader, partitionsForTopic or
\* the pick of getDefault.
Lookup(t) == th[t].pc \in {"gl47", "pt82", "pt90", "gd155"} /\ th'[t].pc # th[t].pc

\* Thread t deletes a broker in this step.
Deletion(t) == th[t].pc = "tb39" /\ th'[t].pc # th[t].pc

\* C5: no lookup, and no terminateBroker, happens while a metadata response is
\* partly applied, and no two responses are applied at the same time: every
\* lookup reads what whole refreshes and whole terminations left.
C5_WholeRefreshes ==
    [][\A t, u \in Threads :
          /\ Lookup(t) \/ Deletion(t) => ~MidRefresh(u)
          /\ MidRefresh(t) /\ MidRefresh(u) => t = u]_vars

\* A lookup waits while a response is partly applied.
C5_Witness ==
    \E t, u \in Threads :
        MidRefresh(u) /\ th[t].pc \in {"gl47", "pt82", "pt90", "gd155"}

\* Two calls of sendToPartition for the same topic and partition, each begun
\* with no cache entry of the topic.
ColdPair(t, u) ==
    /\ t # u
    /\ th[t].op = "sendToPartition" /\ th[u].op = "sendToPartition"
    /\ th[t].cold /\ th[u].cold
    /\ th[t].topic = th[u].topic /\ th[t].part = th[u].part

\* Thread t is in a sendToPartition call that began with no cache entry of
\* its topic.
ColdCall(t) == th[t].op = "sendToPartition" /\ th[t].cold /\ th[t].pc # "idle"

\* C6: once two sendToPartition calls for one (topic, partition) on a cold
\* cache have both returned, at least one of them has called refreshTopics;
\* and no such call stays in progress for ever, whatever runs beside it: each
\* of the two returns.
C6_ColdPairReturns ==
    /\ [](\A t, u \in Threads :
            ColdPair(t, u) /\ Returned(th[t]) /\ Returned(th[u])
                => Count(th[t].hist, "refresh") + Count(th[u].hist, "refresh") >= 1)
    /\ \A t \in Threads : []<>~ColdCall(t)

\* Both calls of a cold pair have returned, one of them without a refresh of
\* its own: it found the leader that the other's refresh had cached.
C6_Witness ==
    \E t, u \in Threads :
        /\ ColdPair(t, u) /\ Returned(th[t]) /\ Returned(th[u])
        /\ Count(th[t].hist, "refresh") = 0

\* The first send of sendToPartition went to a cached leader and failed with
\* an EncodingError.
EncodingFailure(l) ==
    /\ l.op = "sendToPartition"
    /\ l.hist # <<>>
    /\ l.hist[1].k = "send" /\ l.hist[1].err = EncodingError

\* The send of a user's sendToAny returns an EncodingError in this step.
AnyEncodingFailure(t) ==
    /\ th[t].op = "sendToAny" /\ th[t].pc = "sa168"
    /\ th'[t].pc # th[t].pc
    /\ th'[t].err = EncodingError

\* C7: after an EncodingError from a cached leader, sendToPartition has
\* returned (false, EncodingError) with that one send and nothing else: no
\* terminateBroker, no refresh, no write to the maps or the slot. And the step
\* in which a send of sendToAny fails with an EncodingError returns that
\* error and leaves the slot and the maps as they are.
C7_EncodingErrorReturned ==
    /\ [](\A t \in Threads :
            EncodingFailure(th[t]) =>
                /\ Returned(th[t])
                /\ th[t].ret = [NoResult EXCEPT !.err = EncodingError]
                /\ Len(th[t].hist) = 1
                /\ ~th[t].wrote)
    /\ [][\A t \in Threads :
            AnyEncodingFailure(t) =>
                /\ Returned(th'[t])
                /\ th'[t].ret = [NoResult EXCEPT !.err = EncodingError]
                /\ UNCHANGED <<brokers, partitions, defaultBroker>>]_vars

\* Both cases have happened: sendToPartition has returned the EncodingError of
\* a cached leader, sendToAny the EncodingError of a broker in the slot.
C7_Witness ==
    \E t, u \in Threads :
        /\ EncodingFailure(th[t])
        /\ th[u].op = "sendToAny" /\ Returned(th[u]) /\ th[u].err = EncodingError
        /\ defaultBroker \in setup.cluster

\* The first send of sendToPartition returned a response with stale topics.
SawStale(l) ==
    /\ l.op = "sendToPartition"
    /\ EventsOf(l.hist, "send") # {}
    /\ l.hist[FirstSend(l.hist)].topics # {}

\* The first send of sendToPartition returned a broker error.
SawBrokerError(l) ==
    /\ l.op = "sendToPartition"
    /\ EventsOf(l.hist, "send") # {}
    /\ l.hist[FirstSend(l.hist)].err = BrokerError

\* The refreshes that sendToPartition asked for after its first send.
RefreshesSince(l) ==
    Cardinality({i \in EventsOf(l.hist, "refresh") : i > FirstSend(l.hist)})

\* C8 as claimed: a sendToPartition that has seen stale topics or a broker
\* error on its first send asks for at most one refresh after it.
C8_OneRefresh ==
    \A t \in Threads :
        SawStale(th[t]) \/ SawBrokerError(th[t]) => RefreshesSince(th[t]) <= 1

\* C8 amended: after a broker error on its first send sendToPartition asks
\* for at most one refresh, after stale topics for at most two.
C8_OneOrTwoRefreshes ==
    \A t \in Threads :
        /\ SawBrokerError(th[t]) => RefreshesSince(th[t]) <= 1
        /\ SawStale(th[t]) => RefreshesSince(th[t]) <= 2

\* Both bounds are met: one call has refreshed once after a broker error,
\* another twice after stale topics.
C8_Witness ==
    \E t, u \in Threads :
        /\ SawBrokerError(th[t]) /\ RefreshesSince(th[t]) = 1 /\ Returned(th[t])
        /\ SawStale(th[u]) /\ RefreshesSince(th[u]) = 2 /\ Returned(th[u])

\* getValidLeader was called with no broker in the cache, none in the slot
\* and no other call in progress, and has returned.
AfterOutage(l) == l.op = "getValidLeader" /\ l.quiet /\ Returned(l)

\* C9 as claimed: the lookup after a total outage fails with
\* UNKNOWN_TOPIC_OR_PARTITION.
C9_UnknownTopic ==
    \A t \in Threads :
        AfterOutage(th[t]) => th[t].ret.err = UNKNOWN_TOPIC_OR_PARTITION

\* C9 amended: the lookup after a total outage fails with OutOfBrokers, the
\* error of the refresh that getValidLeader asks for, and yields no leader.
C9_OutOfBrokers ==
    \A t \in Threads :
        AfterOutage(th[t]) =>
            /\ th[t].ret.err = OutOfBrokers
            /\ th[t].ret.leader = NilBroker
            /\ Count(th[t].hist, "refresh") = 1

\* The lookup has returned after a sendToAny of the other thread returned
\* OutOfBrokers, with partition records still cached.
C9_Witness ==
    \E t, u \in Threads :
        /\ AfterOutage(th[t])
        /\ th[u].op = "sendToAny" /\ Returned(th[u]) /\ th[u].ret.err = OutOfBrokers
        /\ th[t].topic \in DOMAIN partitions
        /\ th[t].part \in DOMAIN partitions[th[t].topic]

PartitionsReturned(l) == l.op = "partitionsForTopic" /\ Returned(l)

\* partitionsForTopic returns in this step, having read bm.partitions.
PartitionsReturns(t) ==
    /\ th[t].op = "partitionsForTopic"
    /\ th[t].pc \in {"pt82", "pt90"}
    /\ th'[t].pc = "idle"

\* C10 as claimed: partitionsForTopic has asked for no refresh and returned
\* partition ids, or for one refresh and then returned partition ids or
\* UNKNOWN_TOPIC_OR_PARTITION.
C10_IdsOrUnknownTopic ==
    \A t \in Threads :
        PartitionsReturned(th[t]) =>
            /\ Count(th[t].hist, "refresh") <= 1
            /\ Count(th[t].hist, "refresh") = 0 => th[t].ret.err = NoError
            /\ th[t].ret.err \in {NoError, UNKNOWN_TOPIC_OR_PARTITION}

\* C10 amended: partitionsForTopic asks for a refresh if and only if the topic
\* is absent at its first read, and for one only; it returns the error of
\* that refresh if it failed; otherwise it returns the partition ids of the
\* entry that it reads, or UNKNOWN_TOPIC_OR_PARTITION when it reads none at
\* the re-check.
C10_IdsOrRefreshError ==
    /\ [](\A t \in Threads :
            /\ th[t].op = "partitionsForTopic" => Count(th[t].hist, "refresh") <= 1
            /\ PartitionsReturned(th[t]) /\ Count(th[t].hist, "refresh") = 0
                  => th[t].ret.err = NoError
            /\ PartitionsReturned(th[t]) =>
                  th[t].ret.err \in {NoError, UNKNOWN_TOPIC_OR_PARTITION, OutOfBrokers,
                                     EncodingError, LEADER_NOT_AVAILABLE})
    /\ [][\A t \in Threads :
            PartitionsReturns(t) =>
                /\ th[t].topic \in DOMAIN partitions =>
                      /\ th'[t].ret = [NoResult EXCEPT !.ids = DOMAIN partitions[th[t].topic]]
                      /\ Count(th'[t].hist, "refresh") = IF th[t].pc = "pt82" THEN 0 ELSE 1
                /\ th[t].topic \notin DOMAIN partitions =>
                      /\ th[t].pc = "pt90"
                      /\ th'[t].ret = [NoResult EXCEPT !.err = UNKNOWN_TOPIC_OR_PARTITION]
                      /\ Count(th'[t].hist, "refresh") = 1]_vars

\* partitionsForTopic has returned the partition ids of an entry that its
\* refresh cached.
C10_Witness ==
    \E t \in Threads :
        /\ PartitionsReturned(th[t])
        /\ Count(th[t].hist, "refresh") = 1
        /\ th[t].ret.err = NoError
        /\ th[t].ret.ids # {}

\* The leader ids that the partition records of the map m name.
LeadersOf(m) == {m[p] : p \in DOMAIN m}

\* refreshTopics applies the topics of its response and returns nil in this
\* step.
RefreshSucceeds(t) ==
    /\ th[t].pc = "rt196"
    /\ th'[t].pc # th[t].pc
    /\ ApplyTopics(partitions, th[t].resp.topics, 1).err = NoError

\* C11 as claimed: in the state that a refresh returning no error leaves,
\* every leader id of every partition record in the cache is a key of
\* bm.brokers.
C11_AllLeadersCached ==
    [][\A t \in Threads :
          RefreshSucceeds(t) =>
              \A topic \in DOMAIN partitions' : LeadersOf(partitions'[topic]) \subseteq brokers']_vars

\* C11 amended: in the state that a refresh returning no error leaves, every
\* leader id of a partition record of a topic that the response describes is
\* a key of bm.brokers.
C11_DescribedLeadersCached ==
    [][\A t \in Threads :
          RefreshSucceeds(t) =>
              \A i \in DOMAIN th[t].resp.topics :
                  /\ th[t].resp.topics[i].name \in DOMAIN partitions'
                  /\ LeadersOf(partitions'[th[t].resp.topics[i].name]) \subseteq brokers']_vars

\* A refresh of topic t has returned no error after a broker was terminated:
\* the record of t names a cached broker, the record of u, which the refresh
\* did not ask for, names a broker that is not cached.
C11_Witness ==
    \E t \in Threads :
        /\ th[t].op = "refreshTopics" /\ Returned(th[t]) /\ th[t].ret.err = NoError
        /\ th[t].hist[1].topics = {"t"}
        /\ "t" \in DOMAIN partitions /\ "u" \in DOMAIN partitions
        /\ LeadersOf(partitions["t"]) # {} /\ LeadersOf(partitions["t"]) \subseteq brokers
        /\ LeadersOf(partitions["u"]) # {} /\ ~(LeadersOf(partitions["u"]) \subseteq brokers)

Constructing(l) == l.op = "newBrokerManager"

\* The manager that a construction without error hands to its callers is
\* one that Init describes.
AsInit ==
    /\ defaultBroker = BootstrapId
    /\ writer = {} /\ readers = {}
    /\ \E r \in Responses(setup.cluster, setup.topics, setup.pids, {}) :
          LET a == ApplyTopics(<<>>, r.topics, 1)
          IN  a.err = NoError /\ brokers = r.brokers /\ partitions = a.partitions

\* C12: newBrokerManager returns an error, and no manager that anyone could
\* call, when newBroker fails (that error) and when the first refresh fails
\* (its error: an EncodingError of the send, the error code of a topic or a
\* partition of the response, or OutOfBrokers); it returns the manager only
\* when both succeed. After a transport error of the send to the bootstrap
\* broker nothing is sent again and OutOfBrokers is returned.
C12_ConstructionFails ==
    /\ [](\A t \in Threads :
            /\ Constructing(th[t]) /\ Returned(th[t]) =>
                  /\ th[t].ret.err # NoError
                  /\ calls = 0
                  /\ \A u \in Threads \ {t} : th[u] = Idle
            /\ Constructing(th[t]) /\ th[t].err = BrokerError =>
                  /\ th[t].pc # "sa168"
                  /\ Returned(th[t]) => th[t].ret.err = OutOfBrokers)
    /\ [][\A t \in Threads :
            Constructing(th[t]) /\ th'[t].pc # th[t].pc =>
                /\ th[t].pc = "nb21" /\ defaultBroker' = NilBroker
                      => Returned(th'[t]) /\ th'[t].ret.err = DialError
                /\ th[t].pc = "sa168" /\ defaultBroker' # NilBroker
                      /\ th'[t].pc # "rt188"
                      => Returned(th'[t]) /\ th'[t].ret.err = EncodingError
                /\ th[t].pc = "rt196"
                      => LET err == ApplyTopics(partitions, th[t].resp.topics, 1).err
                         IN  IF err # NoError
                             THEN Returned(th'[t]) /\ Constructing(th'[t]) /\ th'[t].ret.err = err
                             ELSE th'[t] = Idle
                /\ ~Constructing(th'[t]) => th[t].pc = "rt196" /\ AsInit']_vars

\* The send to the bootstrap broker failed with a transport error, and the
\* construction has returned OutOfBrokers.
C12_Witness ==
    \E t \in Threads :
        /\ Constructing(th[t]) /\ Returned(th[t])
        /\ th[t].err = BrokerError
        /\ th[t].ret.err = OutOfBrokers
        /\ defaultBroker = NilBroker

\* Thread t takes a step of refreshTopics from pc.
RefreshStep(t, pc) == th[t].pc = pc /\ th'[t].pc # th[t].pc

\* C13: what a refresh makes of the cache is what a second refresh with the
\* same response, right after it, makes of it again: putting the brokers of
\* the response into the brokers that the step leaves changes nothing, and
\* applying the topics of the response to the partitions that the step leaves
\* gives the same entries and the same error.
C13_RefreshTwice ==
    [][\A t \in Threads :
          /\ RefreshStep(t, "rt188") =>
                \E bs \in SUBSET setup.cluster :
                    LET r == [brokers |-> bs, topics |-> th'[t].resp.topics]
                    IN  /\ brokers' = PutBrokers(brokers, r)
                        /\ PutBrokers(brokers', r) = brokers'
          /\ RefreshStep(t, "rt196") =>
                LET once == ApplyTopics(partitions, th[t].resp.topics, 1)
                    twice == ApplyTopics(partitions', th[t].resp.topics, 1)
                IN  /\ partitions' = once.partitions
                    /\ twice = once]_vars

\* Two refreshes of topic t have returned no error, and the cache holds an
\* entry of t with a leader.
C13_Witness ==
    /\ \A t \in Threads :
          /\ th[t].op = "refreshTopics" /\ Returned(th[t]) /\ th[t].ret.err = NoError
          /\ th[t].hist[1].topics = {"t"}
    /\ "t" \in DOMAIN partitions
    /\ LeadersOf(partitions["t"]) # {}

\* The record of (topic, p) names id as its leader.
Names(topic, p, id) ==
    topic \in DOMAIN partitions /\ p \in DOMAIN partitions[topic] /\ partitions[topic][p] = id

\* C14: the step of terminateBroker(id) removes id from bm.brokers and leaves
\* every other broker, every partition record, the slot and the other
\* threads as they are; when id is not cached it changes nothing; and
\* getLeader finds no leader for a partition whose record names a broker
\* that is not cached, from that step on and as long as no refresh has put
\* the broker back.
C14_TerminateRemovesKey ==
    [][\A t \in Threads :
          /\ Deletion(t) =>
                /\ brokers' = brokers \ {th[t].b}
                /\ th[t].b \notin brokers => brokers' = brokers
                /\ UNCHANGED <<partitions, defaultBroker>>
                /\ \A u \in Threads \ {t} : th'[u] = th[u]
                /\ \A topic \in setup.topics, p \in setup.pids :
                      Names(topic, p, th[t].b) => Leader(brokers', partitions', topic, p) = NilBroker
          /\ th[t].pc = "gl47" /\ th'[t].pc # th[t].pc
                /\ (\E id \in setup.cluster \ brokers : Names(th[t].topic, th[t].part, id))
                => th'[t] = RetGL(th[t], NilBroker)]_vars

\* Both callers have terminated broker 1, one after the other, and the
\* record of a partition still names it.
C14_Witness ==
    /\ \A t \in Threads :
          /\ th[t].op = "terminateBroker" /\ Returned(th[t])
          /\ th[t].hist[1].id = 1
    /\ \E topic \in setup.topics, p \in setup.pids : Names(topic, p, 1)
    /\ 1 \notin brokers

\* The events of h after its first send.
AfterFirstSend(h) == SubSeq(h, FirstSend(h) + 1, Len(h))

\* What follows a first send to B that failed with a broker error, in
\* order: the termination of B, the refresh of the topic if the lookup found
\* no leader, the second send.
DeadLeaderOrder(l) ==
    LET first == l.hist[FirstSend(l.hist)]
        rest == AfterFirstSend(l.hist)
        kinds == [i \in DOMAIN rest |-> rest[i].k]
    IN  /\ kinds \in {<<>>, <<"terminate">>, <<"terminate", "refresh">>,
                      <<"terminate", "send">>, <<"terminate", "refresh", "send">>}
        /\ rest = <<>> <=> l.pc = "tb39" /\ l.stack = <<"L137">>
        /\ rest # <<>> => rest[1] = TerminateEvent(first.id)
        /\ \A i \in DOMAIN rest : rest[i].k = "refresh" => rest[i] = RefreshEvent({l.topic})
        /\ Returned(l) =>
              LET last == l.hist[Len(l.hist)]
              IN  IF last.k = "send"
                  THEN l.ret = [NoResult EXCEPT !.got = last.got, !.err = last.err]
                  ELSE l.ret.err # NoError /\ ~l.ret.got /\ l.ret.leader = NilBroker

\* C15: after a first send of sendToPartition to B that failed with a
\* transport error, first B is removed from bm.brokers, then the leader is
\* looked up again, with a refresh of the topic if the lookup finds none,
\* then the request is sent once, to the leader that this lookup found, and
\* what this second send returns is what sendToPartition returns; when no
\* leader is found, nothing more is sent and the error is returned.
C15_DeadLeaderOrder ==
    /\ [](\A t \in Threads : SawBrokerError(th[t]) => DeadLeaderOrder(th[t]))
    /\ [][\A t \in Threads :
            SawBrokerError(th[t]) =>
                /\ Deletion(t) /\ th[t].stack = <<"L137">> =>
                      /\ th[t].b = th[t].hist[FirstSend(th[t].hist)].id
                      /\ th[t].b \notin brokers'
                      /\ th'[t].pc = "gl47"
                /\ th'[t].pc = "sp149" /\ th[t].pc # "sp149" =>
                      /\ th[t].pc = "gl47"
                      /\ th'[t].b = Leader(brokers, partitions, th[t].topic, th[t].part)
                      /\ th'[t].b # NilBroker]_vars

\* The dead leader's call has returned what its second send returned, from
\* another broker that a refresh made the leader.
C15_Witness ==
    \E t \in Threads :
        /\ SawBrokerError(th[t]) /\ Returned(th[t])
        /\ Len(th[t].hist) = 4
        /\ th[t].hist[1].k = "send" /\ th[t].hist[3].k = "refresh"
        /\ th[t].hist[4].id # th[t].hist[1].id
        /\ th[t].hist[4].err = NoError /\ th[t].ret.got

\* Thread t enters the second send of sendToPartition in this step.
SendsAgain(t) == th'[t].pc = "sp149" /\ th[t].pc # "sp149"

\* The refresh of the stale topics that the first response of l reported.
StaleRefresh(l) == RefreshEvent(l.hist[FirstSend(l.hist)].topics)

\* C16 as claimed: after a first response with stale topics, the second send
\* follows one refresh, of exactly those topics, and goes to the broker
\* that the cache, as this refresh left it, names as the leader.
C16_LeaderAfterStaleRefresh ==
    [][\A t \in Threads :
          SawStale(th[t]) /\ SendsAgain(t) =>
              /\ AfterFirstSend(th[t].hist) = <<StaleRefresh(th[t])>>
              /\ th'[t].b = Leader(brokers, partitions, th[t].topic, th[t].part)]_vars

\* C16 amended: after a first response with stale topics, a refresh of
\* exactly those topics comes first; the second send follows that refresh,
\* or one more refresh, of the topic of the request, when the lookup after
\* the first found no leader; and it goes to the broker that the cache names
\* as the leader at the last lookup.
C16_LeaderAtLookup ==
    /\ [](\A t \in Threads :
            SawStale(th[t]) =>
                LET rest == AfterFirstSend(th[t].hist)
                IN  /\ rest # <<>> /\ rest[1] = StaleRefresh(th[t])
                    /\ [i \in DOMAIN rest |-> rest[i].k] \in
                           {<<"refresh">>, <<"refresh", "send">>, <<"refresh", "refresh">>,
                            <<"refresh", "refresh", "send">>}
                    /\ Len(rest) > 1 /\ rest[2].k = "refresh"
                          => rest[2] = RefreshEvent({th[t].topic}))
    /\ [][\A t \in Threads :
            SawStale(th[t]) /\ SendsAgain(t) =>
                /\ th[t].pc = "gl47"
                /\ th'[t].b = Leader(brokers, partitions, th[t].topic, th[t].part)
                /\ th'[t].b # NilBroker]_vars

\* After a first response from B with stale topics and one refresh, the
\* second send has gone to another broker.
C16_Witness ==
    \E t \in Threads :
        /\ SawStale(th[t]) /\ Returned(th[t])
        /\ Len(th[t].hist) = 3
        /\ th[t].hist[1].k = "send" /\ th[t].hist[3].k = "send"
        /\ th[t].hist[3].id # th[t].hist[1].id

\* The sends of h that returned a broker error.
FailedSends(h) == {i \in EventsOf(h, "send") : h[i].err = BrokerError}

\* The broker of send i of h is terminated later in h.
TerminatedAfter(h, i) == \E j \in EventsOf(h, "terminate") : j > i /\ h[j].id = h[i].id

\* A send of sendToAny, for a user or a refresh, returns in this step.
AnySendReturns(t) == th[t].pc = "sa168" /\ th'[t].pc # th[t].pc

\* What sendToAny does about a broker error of its send: the slot is cleared
\* and terminateBroker is called with the id of the broker sent to, which is
\* not in bm.brokers when terminateBroker returns to the loop.
AnyFailureTerminates(t) ==
    /\ AnySendReturns(t) /\ th[t].stack = <<>> =>
          (th'[t].err = BrokerError <=> th'[t].pc = "tb39")
    /\ AnySendReturns(t) /\ th'[t].pc = "tb39" =>
          /\ th'[t].b = th[t].b
          /\ th'[t].stack = <<"L175">> \o th[t].stack
    /\ AnySendReturns(t) /\ th'[t].pc # "tb39" => UNCHANGED <<brokers, defaultBroker>>
    /\ Deletion(t) /\ th[t].stack # <<>> /\ Head(th[t].stack) = "L175" =>
          /\ th[t].b \notin brokers'
          /\ th'[t].pc = "gd154"

\* C17 as claimed: when sendToPartition has returned, the broker of each of
\* its sends that failed with a broker error, the second included, has been
\* terminated since; and sendToAny terminates the broker of each send that
\* fails with a broker error before it goes on.
C17_EveryFailureTerminates ==
    /\ [](\A t \in Threads :
            th[t].op = "sendToPartition" /\ Returned(th[t]) =>
                \A i \in FailedSends(th[t].hist) : TerminatedAfter(th[t].hist, i))
    /\ [][\A t \in Threads : AnyFailureTerminates(t)]_vars

\* C17 amended: when sendToPartition has returned, the broker of its first
\* send has been terminated since if that send failed with a broker error; a
\* broker error of its second send is the last thing the call did, and is
\* returned with no termination; and sendToAny terminates the broker of each
\* send that fails with a broker error before it goes on.
C17_FirstFailureTerminates ==
    /\ [](\A t \in Threads :
            th[t].op = "sendToPartition" /\ Returned(th[t]) =>
                \A i \in FailedSends(th[t].hist) :
                    IF i = FirstSend(th[t].hist)
                    THEN TerminatedAfter(th[t].hist, i)
                    ELSE /\ i = Len(th[t].hist)
                         /\ th[t].ret = [NoResult EXCEPT !.err = BrokerError])
    /\ [][\A t \in Threads : AnyFailureTerminates(t)]_vars

\* sendToPartition has returned the broker error of its second send, to a
\* broker that is still cached; the first send, to another broker, failed too.
C17_Witness ==
    \E t \in Threads :
        LET h == th[t].hist
        IN  /\ th[t].op = "sendToPartition" /\ Returned(th[t])
            /\ Cardinality(FailedSends(h)) = 2
            /\ h[Len(h)].id \in brokers
            /\ h[Len(h)].id # h[FirstSend(h)].id

\* Every call made so far is a sendToAny, one for each thread that made one:
\* the sends made since the construction are those of the calls on record.
OnlySendToAny ==
    /\ \A u \in Threads : th[u].op \in {"none", "sendToAny"}
    /\ calls = Cardinality({u \in Threads : th[u].op = "sendToAny"})

\* The endpoints that a send of u's sendToAny may have failed on: those it
\* has sent to, but for the one it is sending to for the first time.
FailedBy(u) ==
    IF th[u].pc = "sa168" /\ ~th[u].dup THEN th[u].visited \ {th[u].b} ELSE th[u].visited

\* C18 as claimed: when a send of a sendToAny fails and the slot is set to
\* none (line 174), with sendToAny the only calls ever made, the slot holds
\* nothing, or the broker of this send, or a broker that a send has failed on
\* before.
C18_ClearsFailedBroker ==
    [][\A t \in Threads :
          AnySendReturns(t) /\ th'[t].pc = "tb39" /\ OnlySendToAny =>
              \/ defaultBroker \in {NilBroker, th[t].b}
              \/ \E u \in Threads : defaultBroker \in FailedBy(u)]_vars

\* The partition mapping that the first n partitions of the list ps give.
MapOf(ps, n) ==
    [p \in {ps[j].id : j \in 1..n} |-> ps[CHOOSE j \in 1..n : ps[j].id = p].leader]

\* The partitions of ps before its first partition with an error.
ErrorFree(ps) ==
    CHOOSE n \in 0..Len(ps) :
        /\ \A j \in 1..n : ps[j].err = NO_ERROR
        /\ n < Len(ps) => ps[n + 1].err # NO_ERROR

\* The topics of the response ts whose entry refreshTopics writes: those
\* without error up to the first topic with an error of its own or of one of
\* its partitions, this one included in the second case.
Written(ts) ==
    {i \in DOMAIN ts :
        /\ ts[i].err = NO_ERROR
        /\ \A j \in 1..(i - 1) :
              ts[j].err = NO_ERROR /\ ErrorFree(ts[j].partitions) = Len(ts[j].partitions)}

\* The whole mapping of the list ps.
WholeEntry(ps) == MapOf(ps, Len(ps))

\* The mapping of the list ps up to its first partition with an error.
LeadingEntry(ps) == MapOf(ps, ErrorFree(ps))

\* The step of thread t that applies the topics of its response leaves, for
\* each topic the response writes, the whole or the leading entry of the
\* topic's partition list, and every other entry as it was.
EntriesAre(t, whole) ==
    LET ts == th[t].resp.topics
    IN  \A n \in Topics :
            IF \E i \in Written(ts) : ts[i].name = n
            THEN /\ n \in DOMAIN partitions'
                 /\ \E i \in Written(ts) :
                       /\ ts[i].name = n
                       /\ partitions'[n] = IF whole THEN WholeEntry(ts[i].partitions)
                                           ELSE LeadingEntry(ts[i].partitions)
            ELSE /\ n \in DOMAIN partitions' <=> n \in DOMAIN partitions
                 /\ n \in DOMAIN partitions => partitions'[n] = partitions[n]

\* C19 as claimed: every entry that a refresh writes, whatever it returns, is
\* the whole partition mapping of the topic in the response, and no other
\* entry changes.
C19_WholeEntries ==
    [][\A t \in Threads : RefreshStep(t, "rt196") => EntriesAre(t, TRUE)]_vars

\* C19 amended: every entry that a refresh writes is the mapping of the
\* topic's partitions in the response up to the first partition with an
\* error, all of them when there is none, with nothing of the entry it
\* replaces; and no other entry changes.
C19_LeadingEntries ==
    [][\A t \in Threads : RefreshStep(t, "rt196") => EntriesAre(t, FALSE)]_vars

\* A refresh of a topic of two partitions has returned the error of a
\* partition and left an entry of one partition.
C19_Witness ==
    \E t \in Threads :
        /\ th[t].op = "refreshTopics" /\ Returned(th[t])
        /\ th[t].ret.err = LEADER_NOT_AVAILABLE
        /\ setup.pids = {0, 1}
        /\ "t" \in DOMAIN partitions
        /\ Cardinality(DOMAIN partitions["t"]) = 1

\* sendToPartition has returned after the refresh of the stale topics of its
\* first response, with no lookup of the leader since: the refresh failed.
StaleRefreshFailed(l) ==
    SawStale(l) /\ Returned(l) /\ AfterFirstSend(l.hist) = <<StaleRefresh(l)>>

\* The error with which the refresh of the stale topics returns in this step
\* of thread t, NoError when it returns none or does not return.
StaleRefreshError(t) ==
    CASE th[t].pc = "gd163" /\ th[t].stack = <<"L183", "L127">> /\ defaultBroker = NilBroker
            -> OutOfBrokers
      [] th[t].pc = "sa168" /\ th[t].stack = <<"L183", "L127">> /\ th'[t].pc = "idle"
            -> EncodingError
      [] th[t].pc = "rt196" /\ th[t].stack = <<"L127">>
            -> ApplyTopics(partitions, th[t].resp.topics, 1).err
      [] OTHER -> NoError

\* C20: when the refresh of the stale topics of the first response fails,
\* sendToPartition returns (true, the error of the refresh) at once, with no
\* lookup of the leader and no second send; and every other return of an
\* error before the second send, from the first send or from either lookup
\* of the leader, has gotResponse false.
C20_TrueWithRefreshError ==
    /\ [](\A t \in Threads :
            th[t].op = "sendToPartition" /\ Returned(th[t]) /\ th[t].ret.err # NoError =>
                /\ StaleRefreshFailed(th[t]) => th[t].ret.got /\ Count(th[t].hist, "send") = 1
                /\ ~StaleRefreshFailed(th[t]) /\ Count(th[t].hist, "send") < 2 => ~th[t].ret.got
                /\ ~StaleRefreshFailed(th[t]) /\ Count(th[t].hist, "send") = 2 =>
                      th[t].ret.err = th[t].hist[Len(th[t].hist)].err)
    /\ [][\A t \in Threads :
            th[t].op = "sendToPartition" /\ th'[t].pc # th[t].pc /\ StaleRefreshError(t) # NoError =>
                /\ th'[t].ret = [NoResult EXCEPT !.got = TRUE, !.err = StaleRefreshError(t)]
                /\ StaleRefreshFailed(th'[t])]_vars

\* sendToPartition has returned (true, OutOfBrokers): its first send got a
\* response with stale topics, and no broker answered the refresh.
C20_Witness ==
    \E t \in Threads :
        /\ StaleRefreshFailed(th[t])
        /\ th[t].ret = [NoResult EXCEPT !.got = TRUE, !.err = OutOfBrokers]
        /\ brokers = {}

=============================================================================
